---------------------------- MODULE Spec2Model ----------------------------
(***************************************************************************)
(* The tutorial notebooks of joommf/icm2018-workshop as a state machine:   *)
(* one interactive session executes the code cells of one notebook, one    *)
(* statement at a time, from top to bottom.                                *)
(*                                                                         *)
(* Lengths are exact integers in units of 0.25 nm (2.5e-9 m = 10, 1e-9 m = *)
(* 4, 500e-9 m = 2000); the saturation magnetisation and the fields are    *)
(* integers in A/m.  Every other float literal (A, D, K, gamma, alpha,     *)
(* beta, t) is only ever passed on to the libraries and is kept as the     *)
(* text of the literal.  No position the notebooks sample lies within      *)
(* rounding distance of a threshold of m_value or Ms_value (the nearest is *)
(* half a cell away), so exact arithmetic decides every comparison as the  *)
(* floats do.  Where the rounding of the floats matters, in the arguments  *)
(* of a mesh, the lengths are also evaluated as the doubles they are.      *)
(***************************************************************************)
EXTENDS Integers, Sequences, FiniteSets, TLC

VARIABLES nb,      \* the notebook this session executes
          pc,      \* index of the next statement of Program(nb)
          env,     \* the session's global names: name -> value
          system,  \* the attributes of the object bound to `system`
          trace,   \* the operations executed so far, arguments evaluated
          out,     \* the value of the last field call m(point)
          probe    \* SpecFn only: one call of a notebook function

vars == <<nb, pc, env, system, trace, out, probe>>

\* How many distinct results a driver run may leave in system.m (the drivers
\* are external: the result is any of them).
NumOutcomes == 2

\* How many half cells beyond the mesh domain the probed positions extend.
ProbeMargin == 1

\* The largest number of cells along an axis that is looked for.
MaxCells == 256

Range(s) == {s[i] : i \in DOMAIN s}

-----------------------------------------------------------------------------
(* Expressions of the notebooks' statements. *)

LitInt(v) == [k |-> "lit", v |-> [kind |-> "int", val |-> v]]
LitFloat(v) == [k |-> "lit", v |-> [kind |-> "float", val |-> v]]
LitStr(v) == [k |-> "lit", v |-> [kind |-> "str", val |-> v]]
Name(n) == [k |-> "name", n |-> n]
Tup(es) == [k |-> "tuple", es |-> es]
Neg(e) == [k |-> "neg", e |-> e]
Div(e, c) == [k |-> "div", e |-> e, by |-> c]
Plus(a, b) == [k |-> "plus", a |-> a, b |-> b]
Call(on, f, pos, kw) ==
  [k |-> "call", on |-> on, f |-> f, pos |-> pos, kw |-> kw]
Attr(root, path) == [k |-> "attr", root |-> root, path |-> path]
KW(n, e) == [n |-> n, e |-> e]

(* Statements: every one carries the line of the notebook file it is on. *)

SImport(line, name) ==
  [line |-> line, op |-> "import", target |-> name, attr |-> "", e |-> LitInt(0)]
SMagic(line) ==
  [line |-> line, op |-> "magic", target |-> "", attr |-> "", e |-> LitInt(0)]
SAssign(line, name, e) ==
  [line |-> line, op |-> "assign", target |-> name, attr |-> "", e |-> e]
SSetAttr(line, obj, attr, e) ==
  [line |-> line, op |-> "setattr", target |-> obj, attr |-> attr, e |-> e]
SIAdd(line, obj, attr, e) ==
  [line |-> line, op |-> "iadd", target |-> obj, attr |-> attr, e |-> e]
SDef(line, name, fid) ==
  [line |-> line, op |-> "def", target |-> name, attr |-> fid, e |-> LitInt(0)]
SDrive(line, driver, kw) ==
  [line |-> line, op |-> "drive", target |-> driver, attr |-> "drive",
   e |-> Call(driver, "drive", <<Name("system")>>, kw)]
SShow(line, e) ==
  [line |-> line, op |-> "show", target |-> "", attr |-> "", e |-> e]
SFieldCall(line, fld, point) ==
  [line |-> line, op |-> "fieldcall", target |-> fld, attr |-> "", e |-> point]

-----------------------------------------------------------------------------
(* The functions the notebooks define.  pos is the position <<x, y, z>> the *)
(* library passes; g holds the session's globals at the time of the call,   *)
(* which is when a Python function reads the global names of its body.      *)

\* A variant of tutorial 1's m_value that draws the line at x >= L/5.
m_value_t1_Closed(pos, g) ==
  IF 5 * pos[1] >= g["L"].val THEN <<1, 0, 0>> ELSE <<-1, 1, 0>>

\* Tutorial 1: x > L/5, stated without the division (5x > L).
m_value_t1(pos, g) ==
  IF 5 * pos[1] > g["L"].val THEN <<1, 0, 0>> ELSE <<-1, 1, 0>>

\* A variant of the sphere's Ms_value that takes the surface in (<=).
Ms_value_sphere_Closed(pos, g) ==
  IF 4 * (pos[1] * pos[1] + pos[2] * pos[2] + pos[3] * pos[3])
       <= g["L"].val * g["L"].val
  THEN g["Ms"].val ELSE 0

\* Tutorial 1, the sphere: (x**2 + y**2 + z**2)**0.5 < L/2.  For L >= 0 the
\* root of s is below L/2 exactly when 4s < L*L.
Ms_value_sphere(pos, g) ==
  IF 4 * (pos[1] * pos[1] + pos[2] * pos[2] + pos[3] * pos[3])
       < g["L"].val * g["L"].val
  THEN g["Ms"].val ELSE 0

\* A variant of Exercise 1a's Ms_value that cuts the disk of diameter d out
\* of the film, as the exercise asks the reader to.
Ms_value_film_Disk(pos, g) ==
  IF 4 * (pos[1] * pos[1] + pos[2] * pos[2]) < g["d"].val * g["d"].val
  THEN g["Ms"].val ELSE 0

\* Tutorial 1, Exercise 1a, as shipped: "insert missing code here", return Ms.
Ms_value_film(pos, g) == g["Ms"].val

\* Tutorial 1, Exercise 1b, as shipped.
Ms_value_ex1b(pos, g) == g["Ms"].val

m_value_ex1b(pos, g) == <<1, 0, 0>>

\* Tutorial 1, Exercise 2, as shipped.
Ms_value_ex2(pos, g) == g["Ms"].val

m_value_ex2(pos, g) == <<1, 1, 1>>

\* A variant of tutorial 4's m_value that takes the two ends in (<=).
m_value_t4_Closed(pos, g) ==
  IF 80 <= pos[1] /\ pos[1] <= 160 THEN <<0, 0, -1>> ELSE <<0, 0, 1>>

\* A variant of the exercise's m_value with the reversed region up to 50e-9.
m_value_t4x_Wider(pos, g) ==
  IF 80 < pos[1] /\ pos[1] < 200 THEN <<0, 0, -1>> ELSE <<0, 0, 1>>

\* Tutorial 4, the example: 20e-9 < x < 40e-9.
m_value_t4(pos, g) ==
  IF 80 < pos[1] /\ pos[1] < 160 THEN <<0, 0, -1>> ELSE <<0, 0, 1>>

\* Tutorial 4, Exercise 1: the same text again.
m_value_t4x(pos, g) ==
  IF 80 < pos[1] /\ pos[1] < 160 THEN <<0, 0, -1>> ELSE <<0, 0, 1>>

FnIds == {"t1.m_value", "t1.Ms_value.sphere", "t1.Ms_value.film",
          "t1.Ms_value.ex1b", "t1.m_value.ex1b", "t1.Ms_value.ex2",
          "t1.m_value.ex2", "t4.m_value", "t4.m_value.exercise"}

\* Calling the function object fid.
ApplyFn(fid, pos, g) ==
  CASE fid = "t1.m_value" -> m_value_t1(pos, g)
    [] fid = "t1.Ms_value.sphere" -> Ms_value_sphere(pos, g)
    [] fid = "t1.Ms_value.film" -> Ms_value_film(pos, g)
    [] fid = "t1.Ms_value.ex1b" -> Ms_value_ex1b(pos, g)
    [] fid = "t1.m_value.ex1b" -> m_value_ex1b(pos, g)
    [] fid = "t1.Ms_value.ex2" -> Ms_value_ex2(pos, g)
    [] fid = "t1.m_value.ex2" -> m_value_ex2(pos, g)
    [] fid = "t4.m_value" -> m_value_t4(pos, g)
    [] fid = "t4.m_value.exercise" -> m_value_t4x(pos, g)

-----------------------------------------------------------------------------
(* The library objects, as far as the notebooks use and describe them. *)

Min2(a, b) == IF a < b THEN a ELSE b
Max2(a, b) == IF a < b THEN b ELSE a

\* A variant of Mesh that counts the cell boundaries instead of the cells.
MeshObj_Fencepost(p1, p2, cell) ==
  LET pmin == [i \in 1..3 |-> Min2(p1[i], p2[i])]
      pmax == [i \in 1..3 |-> Max2(p1[i], p2[i])]
      l == [i \in 1..3 |-> pmax[i] - pmin[i]]
  IN [cls |-> "Mesh", p1 |-> p1, p2 |-> p2, cell |-> cell,
      pmin |-> pmin, pmax |-> pmax, l |-> l,
      n |-> [i \in 1..3 |-> l[i] \div cell[i] + 1]]

\* Mesh(p1, p2, cell): the cuboid between p1 and p2 cut into cells; l is the
\* edge length, n the number of cells in the three directions.
MeshObj(p1, p2, cell) ==
  LET pmin == [i \in 1..3 |-> Min2(p1[i], p2[i])]
      pmax == [i \in 1..3 |-> Max2(p1[i], p2[i])]
      l == [i \in 1..3 |-> pmax[i] - pmin[i]]
  IN [cls |-> "Mesh", p1 |-> p1, p2 |-> p2, cell |-> cell,
      pmin |-> pmin, pmax |-> pmax, l |-> l,
      n |-> [i \in 1..3 |-> l[i] \div cell[i]]]

\* The indices of a mesh's cells.
Cells(mesh) ==
  (0..(mesh.n[1] - 1)) \X (0..(mesh.n[2] - 1)) \X (0..(mesh.n[3] - 1))

\* The centre of cell c: pmin + (c + 0.5) * cell.
Centre(mesh, c) ==
  [i \in 1..3 |-> mesh.pmin[i] + ((2 * c[i] + 1) * mesh.cell[i]) \div 2]

\* Field(mesh, dim, value, norm): value and norm are constants or functions
\* of the position; a function is called with the centre of every cell.  A
\* cell keeps its value as given and the norm it is scaled to.
CellOf(mesh, c, value, g) ==
  IF value.kind = "function"
  THEN ApplyFn(value.val.fid, Centre(mesh, c), g)
  ELSE value.val

FieldObj(mesh, kw, g) ==
  LET normed == "norm" \in DOMAIN kw
  IN [cls |-> "Field", mesh |-> mesh,
      dim |-> IF "dim" \in DOMAIN kw THEN kw["dim"].val ELSE 3,
      normed |-> normed,
      array |-> [c \in Cells(mesh) |->
                   IF normed
                   THEN [value |-> CellOf(mesh, c, kw["value"], g),
                         norm |-> CellOf(mesh, c, kw["norm"], g)]
                   ELSE [value |-> CellOf(mesh, c, kw["value"], g)]]]

\* Every half-cell step of a mesh's domain and `margin` steps beyond it:
\* the corners, edges, faces and centres of its cells.
HalfSteps(mesh, a, margin) ==
  {mesh.pmin[a] + (h * mesh.cell[a]) \div 2 :
     h \in (0 - margin)..(2 * mesh.n[a] + margin)}
HalfGrid(mesh, margin) ==
  HalfSteps(mesh, 1, margin) \X HalfSteps(mesh, 2, margin)
    \X HalfSteps(mesh, 3, margin)

NoField == [cls |-> "none"]

\* Whether point p lies in the mesh domain.
InMesh(mesh, p) ==
  \A i \in 1..3 : mesh.pmin[i] <= p[i] /\ p[i] <= mesh.pmax[i]

\* field(point): the library turns the point into a cell index by rounding
\* (p - pmin)/cell - 0.5 and clipping it to the mesh.  A point inside a cell
\* gets that cell; for a point on the face between two cells the rounding of
\* the floats decides, so either cell is possible.
Point2Index(mesh, p) ==
  {c \in Cells(mesh) :
     \A i \in 1..3 :
        /\ mesh.pmin[i] + c[i] * mesh.cell[i] <= p[i]
        /\ p[i] <= mesh.pmin[i] + (c[i] + 1) * mesh.cell[i]}

\* The keyword arguments of a call: name -> value.
KwArgs(kw, vals) ==
  [n \in {kw[i].n : i \in DOMAIN kw} |->
     vals[CHOOSE i \in DOMAIN kw : kw[i].n = n]]

-----------------------------------------------------------------------------
(* The doubles behind the lengths.  Python reads a literal such as 100e-9  *)
(* as the IEEE-754 double nearest to it, and computes with that double.  A *)
(* double is kept here exactly, as sign and m * 2^e with m a natural       *)
(* number of 53 bits.  Such naturals exceed the machine integers, so they  *)
(* are kept as sequences of digits in base 2^16, lowest digit first and    *)
(* the highest digit not 0 (zero is the empty sequence).                   *)

Base == 2^16

\* n without the zeros above its highest digit.
Trim(n) ==
  SubSeq(n, 1, Cardinality({i \in DOMAIN n : \E j \in i..Len(n) : n[j] # 0}))

\* n * k + c for a small k (k < 2^15).
RECURSIVE MulCarry(_, _, _)
MulCarry(n, k, c) ==
  IF n = <<>>
  THEN IF c = 0 THEN <<>> ELSE <<c>>
  ELSE <<(n[1] * k + c) % Base>> \o MulCarry(Tail(n), k, (n[1] * k + c) \div Base)
Times(n, k) == Trim(MulCarry(n, k, 0))

\* n * 2^s.
Shl(n, s) ==
  IF n = <<>> THEN n ELSE [i \in 1..(s \div 16) |-> 0] \o Times(n, 2^(s % 16))

\* The digits of floor(n / k) for a small k, r being the remainder carried
\* down from the digits above.
RECURSIVE DivTop(_, _, _)
DivTop(n, k, r) ==
  IF n = <<>>
  THEN <<>>
  ELSE DivTop(SubSeq(n, 1, Len(n) - 1), k, (r * Base + n[Len(n)]) % k)
         \o <<(r * Base + n[Len(n)]) \div k>>
Over(n, k) == Trim(DivTop(n, k, 0))

\* a < b.
Less(a, b) ==
  \/ Len(a) < Len(b)
  \/ /\ Len(a) = Len(b)
     /\ \E i \in DOMAIN a :
          a[i] < b[i] /\ \A j \in (i + 1)..Len(a) : a[j] = b[j]

\* a + b + c.
RECURSIVE AddCarry(_, _, _)
AddCarry(a, b, c) ==
  IF a = <<>> /\ b = <<>>
  THEN IF c = 0 THEN <<>> ELSE <<c>>
  ELSE LET t == (IF a = <<>> THEN 0 ELSE a[1]) + (IF b = <<>> THEN 0 ELSE b[1]) + c
       IN <<t % Base>> \o AddCarry(IF a = <<>> THEN a ELSE Tail(a),
                                   IF b = <<>> THEN b ELSE Tail(b), t \div Base)
Sum(a, b) == AddCarry(a, b, 0)

\* a - b - c for a >= b + c.
RECURSIVE SubBorrow(_, _, _)
SubBorrow(a, b, c) ==
  IF a = <<>>
  THEN <<>>
  ELSE LET t == a[1] - (IF b = <<>> THEN 0 ELSE b[1]) - c
       IN <<t % Base>> \o SubBorrow(Tail(a), IF b = <<>> THEN b ELSE Tail(b),
                                    IF t < 0 THEN 1 ELSE 0)
Gap(a, b) == IF Less(a, b) THEN Trim(SubBorrow(b, a, 0)) ELSE Trim(SubBorrow(a, b, 0))

\* n * 10^11 and floor(n / 10^11), in steps a digit can take.
TimesE11(n) == Times(Times(Times(n, 10000), 10000), 1000)
OverE11(n) == Over(Over(Over(n, 10000), 10000), 1000)

\* float("<d>e-11"): the double nearest to d * 10^(-11), for 0 < d < 2^16.
\* With s the shift that gives the quotient 53 bits, m is d * 2^s / 10^11
\* rounded to the nearest natural, a tie to the even one.
ToDouble(d) ==
  LET s == CHOOSE i \in 0..127 :
             /\ ~Less(OverE11(Shl(<<d>>, i)), Shl(<<1>>, 52))
             /\ Less(OverE11(Shl(<<d>>, i)), Shl(<<1>>, 53))
      q == OverE11(Shl(<<d>>, s))
      twice == Times(Gap(Shl(<<d>>, s), TimesE11(q)), 2)
      up == \/ Less(TimesE11(<<1>>), twice)
            \/ twice = TimesE11(<<1>>) /\ q[1] % 2 = 1
  IN [neg |-> FALSE, m |-> IF up THEN Sum(q, <<1>>) ELSE q, e |-> 0 - s]

\* The double of a length literal worth u quarter nanometres (25 u e-11 m);
\* the literal 0 is the integer 0.
LengthDouble(u) ==
  IF u = 0 THEN [neg |-> FALSE, m |-> <<>>, e |-> 0] ELSE ToDouble(25 * u)

\* -x and x/2, both exact.
Negated(x) == [neg |-> x.m # <<>> /\ ~x.neg, m |-> x.m, e |-> x.e]
Halved(x) == [neg |-> x.neg, m |-> x.m, e |-> IF x.m = <<>> THEN 0 ELSE x.e - 1]

\* The doubles an expression of lengths evaluates to: a literal, a name bound
\* to a literal or to a tuple of them, -e, e/2 (exact in binary) and tuples.
RECURSIVE EvalDouble(_, _)
EvalDouble(e, g) ==
  CASE e.k = "lit" -> LengthDouble(e.v.val)
    [] e.k = "name" ->
         IF g[e.n].kind = "tuple"
         THEN [i \in DOMAIN g[e.n].val |-> LengthDouble(g[e.n].val[i])]
         ELSE LengthDouble(g[e.n].val)
    [] e.k = "tuple" -> [i \in DOMAIN e.es |-> EvalDouble(e.es[i], g)]
    [] e.k = "neg" -> Negated(EvalDouble(e.e, g))
    [] e.k = "div" /\ e.by = 2 -> Halved(EvalDouble(e.e, g))

\* The real number x - y of two doubles, in the same form.
Minus(x, y) ==
  LET e0 == Min2(x.e, y.e)
      mx == Shl(x.m, x.e - e0)
      my == Shl(y.m, y.e - e0)
  IN IF x.neg # y.neg
     THEN [neg |-> x.neg, m |-> Sum(mx, my), e |-> e0]
     ELSE [neg |-> IF Less(mx, my) THEN ~x.neg ELSE x.neg /\ mx # my,
           m |-> Gap(mx, my), e |-> e0]

\* How far the real number l is from k times the double c, as a natural on
\* the scale 2^e0 shared by the two, next to c on the same scale.
OffMultiple(l, c, k) ==
  LET e0 == Min2(l.e, c.e)
      ml == Shl(l.m, l.e - e0)
      mc == Shl(c.m, c.e - e0)
  IN [off |-> Gap(ml, Times(mc, k)), cell |-> mc]

\* The arguments p1, p2 and cell of the oc.Mesh / df.Mesh call of statement
\* s, as the doubles the call receives, and the edge p2 - p1 along each axis.
MeshDoubles(s, g) ==
  LET kw == KwArgs(s.e.kw, [i \in DOMAIN s.e.kw |-> EvalDouble(s.e.kw[i].e, g)])
  IN [p1 |-> kw["p1"], p2 |-> kw["p2"], cell |-> kw["cell"],
      l |-> [a \in 1..3 |-> Minus(kw["p2"][a], kw["p1"][a])]]

-----------------------------------------------------------------------------
(* Evaluation of an expression in the session's globals en. *)

TermClasses == {"Exchange", "DMI", "UniaxialAnisotropy", "Zeeman", "Demag",
                "Precession", "Damping", "STT"}

\* The object a call builds.
Construct(f, pos, kw, g) ==
  CASE f = "Mesh" ->
         [kind |-> "Mesh",
          val |-> MeshObj(kw["p1"].val, kw["p2"].val, kw["cell"].val)]
    [] f = "Field" ->
         [kind |-> "Field", val |-> FieldObj(pos[1].val, kw, g)]
    [] f = "System" ->
         [kind |-> "System", val |-> [name |-> kw["name"].val]]
    [] f \in {"MinDriver", "TimeDriver"} ->
         [kind |-> "driver", val |-> [cls |-> f]]
    [] f \in TermClasses ->
         [kind |-> "terms", val |-> <<[cls |-> f, kw |-> kw]>>]
    [] OTHER ->
         [kind |-> "call", val |-> [f |-> f, pos |-> pos, kw |-> kw]]

RECURSIVE Eval(_, _)
Eval(e, g) ==
  CASE e.k = "lit" -> e.v
    [] e.k = "name" -> g[e.n]
    [] e.k = "tuple" ->
         [kind |-> "tuple", val |-> [i \in DOMAIN e.es |-> Eval(e.es[i], g).val]]
    [] e.k = "neg" -> [kind |-> "int", val |-> 0 - Eval(e.e, g).val]
    [] e.k = "div" -> [kind |-> "int", val |-> Eval(e.e, g).val \div e.by]
    [] e.k = "plus" ->
         [kind |-> "terms", val |-> Eval(e.a, g).val \o Eval(e.b, g).val]
    [] e.k = "call" ->
         Construct(e.f, [i \in DOMAIN e.pos |-> Eval(e.pos[i], g)],
                   KwArgs(e.kw, [i \in DOMAIN e.kw |-> Eval(e.kw[i].e, g)]), g)
    [] e.k = "attr" ->
         [kind |-> "attr", val |-> [root |-> e.root, path |-> e.path]]

-----------------------------------------------------------------------------
(* The notebooks: the statements of their code cells, in order.  NB1 and   *)
(* NB0 are the two notebooks of 01-tutorial-geometry.ipynb (tutorial 1 and *)
(* tutorial 0), NB3 and NB4 are tutorials 3 and 4.                         *)

KN(n) == KW(n, Name(n))
Zero3 == Tup(<<LitInt(0), LitInt(0), LitInt(0)>>)
PlotZ(line, obj, w) ==
  SShow(line, Call(obj, "m.z.plot_plane", <<LitStr("z")>>,
                   <<KW("figsize", Tup(<<LitInt(w), LitInt(3)>>))>>))
PlotDt(line) ==
  SShow(line, Call("system", "dt.plot",
                   <<LitStr("t"), Tup(<<LitStr("mx"), LitStr("my"), LitStr("mz")>>)>>,
                   <<>>))

\* ---- Tutorial 4 ----
T4Cell1 == <<
  SImport(26, "oc"), SImport(27, "df"), SMagic(28),
  SAssign(31, "L", LitInt(2000)),          \* 500e-9
  SAssign(32, "w", LitInt(80)),            \* 20e-9
  SAssign(33, "d", LitInt(10)),            \* 2.5e-9
  SAssign(34, "Ms", LitInt(580000)),       \* 5.8e5
  SAssign(35, "A", LitFloat("15e-12")),
  SAssign(36, "D", LitFloat("3e-3")),
  SAssign(37, "K", LitFloat("0.5e6")),
  SAssign(38, "u", Tup(<<LitInt(0), LitInt(0), LitInt(1)>>)),
  SAssign(39, "gamma", LitFloat("2.211e5")),
  SAssign(40, "alpha", LitFloat("0.3")),
  SAssign(43, "p1", Zero3),
  SAssign(44, "p2", Tup(<<Name("L"), Name("w"), Name("d")>>)),
  SAssign(45, "cell", Tup(<<Name("d"), Name("d"), Name("d")>>)),
  SAssign(46, "mesh",
          Call("oc", "Mesh", <<>>, <<KN("p1"), KN("p2"), KN("cell")>>)),
  SAssign(49, "system",
          Call("oc", "System", <<>>, <<KW("name", LitStr("domain_wall_pair"))>>)),
  SSetAttr(50, "system", "hamiltonian",
           Plus(Plus(Call("oc", "Exchange", <<>>, <<KN("A")>>),
                     Call("oc", "DMI", <<>>,
                          <<KN("D"), KW("crystalclass", LitStr("Cnv"))>>)),
                Call("oc", "UniaxialAnisotropy", <<>>,
                     <<KW("K1", Name("K")), KN("u")>>))),
  SSetAttr(53, "system", "dynamics",
           Plus(Call("oc", "Precession", <<>>, <<KN("gamma")>>),
                Call("oc", "Damping", <<>>, <<KN("alpha")>>))) >>
T4Cell2 == <<
  SDef(69, "m_value", "t4.m_value"),
  SSetAttr(76, "system", "m",
           Call("df", "Field", <<Name("mesh")>>,
                <<KW("value", Name("m_value")), KW("norm", Name("Ms"))>>)),
  PlotZ(78, "system", 12) >>
T4Cell3 == <<
  SAssign(94, "md", Call("oc", "MinDriver", <<>>, <<>>)),
  SDrive(95, "md", <<>>),
  PlotZ(97, "system", 12) >>
T4Cell4 == <<
  SAssign(113, "ux", LitInt(400)),
  SAssign(114, "beta", LitFloat("0.5")),
  SIAdd(116, "system", "dynamics",
        Call("oc", "STT", <<>>,
             <<KW("u", Tup(<<Name("ux"), LitInt(0), LitInt(0)>>)), KN("beta")>>)) >>
T4Cell5 == <<
  SAssign(132, "td", Call("oc", "TimeDriver", <<>>, <<>>)),
  SDrive(133, "td", <<KW("t", LitFloat("0.5e-9")), KW("n", LitInt(100))>>),
  PlotZ(135, "system", 12) >>
T4Example == T4Cell1 \o T4Cell2 \o T4Cell3 \o T4Cell4 \o T4Cell5

T4ExCell1 == <<
  SAssign(161, "L", LitInt(2000)),          \* 500e-9
  SAssign(162, "w", LitInt(80)),            \* 20e-9
  SAssign(163, "d", LitInt(10)),            \* 2.5e-9
  SAssign(164, "Ms", LitInt(580000)),       \* 5.8e5
  SAssign(165, "A", LitFloat("15e-12")),
  SAssign(166, "D", LitFloat("3e-3")),
  SAssign(167, "K", LitFloat("0.5e6")),
  SAssign(168, "u", Tup(<<LitInt(0), LitInt(0), LitInt(1)>>)),
  SAssign(169, "gamma", LitFloat("2.211e5")),
  SAssign(170, "alpha", LitFloat("0.3")),
  SAssign(173, "p1", Zero3),
  SAssign(174, "p2", Tup(<<Name("L"), Name("w"), Name("d")>>)),
  SAssign(175, "cell", Tup(<<Name("d"), Name("d"), Name("d")>>)),
  SAssign(176, "mesh",
          Call("oc", "Mesh", <<>>, <<KN("p1"), KN("p2"), KN("cell")>>)),
  SAssign(179, "system",
          Call("oc", "System", <<>>, <<KW("name", LitStr("domain_wall"))>>)),
  SSetAttr(180, "system", "hamiltonian",
           Plus(Plus(Call("oc", "Exchange", <<>>, <<KN("A")>>),
                     Call("oc", "DMI", <<>>,
                          <<KN("D"), KW("crystalclass", LitStr("Cnv"))>>)),
                Call("oc", "UniaxialAnisotropy", <<>>,
                     <<KW("K1", Name("K")), KN("u")>>))),
  SSetAttr(183, "system", "dynamics",
           Plus(Call("oc", "Precession", <<>>, <<KN("gamma")>>),
                Call("oc", "Damping", <<>>, <<KN("alpha")>>))),
  SDef(185, "m_value", "t4.m_value.exercise"),
  SSetAttr(192, "system", "m",
           Call("df", "Field", <<Name("mesh")>>,
                <<KW("value", Name("m_value")), KW("norm", Name("Ms"))>>)),
  PlotZ(194, "system", 12) >>
T4ExCell2 == <<
  SAssign(203, "md", Call("oc", "MinDriver", <<>>, <<>>)),
  SDrive(204, "md", <<>>),
  PlotZ(206, "system", 12) >>
\* A variant of the exercise's last cell that runs the time drive before the
\* STT term is added.
T4ExCell3_DriveFirst == <<
  SAssign(215, "ux", LitInt(400)),
  SAssign(216, "beta", LitFloat("0.5")),
  SAssign(220, "td", Call("oc", "TimeDriver", <<>>, <<>>)),
  SDrive(221, "td", <<KW("t", LitFloat("0.5e-9")), KW("n", LitInt(100))>>),
  SIAdd(218, "system", "dynamics",
        Call("oc", "STT", <<>>,
             <<KW("u", Tup(<<Name("ux"), LitInt(0), LitInt(0)>>)), KN("beta")>>)),
  PlotZ(223, "system", 10) >>
T4ExCell3 == <<
  SAssign(215, "ux", LitInt(400)),
  SAssign(216, "beta", LitFloat("0.5")),
  SIAdd(218, "system", "dynamics",
        Call("oc", "STT", <<>>,
             <<KW("u", Tup(<<Name("ux"), LitInt(0), LitInt(0)>>)), KN("beta")>>)),
  SAssign(220, "td", Call("oc", "TimeDriver", <<>>, <<>>)),
  SDrive(221, "td", <<KW("t", LitFloat("0.5e-9")), KW("n", LitInt(100))>>),
  PlotZ(223, "system", 10) >>
T4Exercise == T4ExCell1 \o T4ExCell2 \o T4ExCell3

NB4 == T4Example \o T4Exercise

\* ---- Tutorial 3 ----
T3Cell1 == <<
  SImport(24, "oc"), SImport(25, "df"), SMagic(26),
  SAssign(29, "p1", Zero3),
  SAssign(30, "p2", Tup(<<LitInt(4), LitInt(4), LitInt(4)>>)),     \* 1e-9
  SAssign(31, "cell", Tup(<<LitInt(4), LitInt(4), LitInt(4)>>)),   \* 1e-9
  SAssign(32, "mesh", Call("oc", "Mesh", <<>>, <<KN("p1"), KN("p2"), KN("cell")>>)) >>
T3Cell2 == <<
  SAssign(48, "system", Call("oc", "System", <<>>, <<KW("name", LitStr("macrospin"))>>)) >>
T3Cell3 == <<
  SAssign(68, "H", Tup(<<LitInt(0), LitInt(0), LitInt(2000000)>>)),  \* 2e6
  SSetAttr(69, "system", "hamiltonian", Call("oc", "Zeeman", <<>>, <<KN("H")>>)) >>
T3Cell4 == <<
  SAssign(85, "gamma", LitFloat("2.211e5")),
  SAssign(86, "alpha", LitFloat("0.1")),
  SSetAttr(88, "system", "dynamics",
           Plus(Call("oc", "Precession", <<>>, <<KN("gamma")>>),
                Call("oc", "Damping", <<>>, <<KN("alpha")>>))) >>
T3Cell5 == <<SShow(104, Attr("system", "dynamics"))>>
\* A variant of tutorial 3's system.m statement with value and norm swapped.
T3SetM_Swapped(line) ==
  SSetAttr(line, "system", "m",
           Call("df", "Field", <<Name("mesh")>>,
                <<KW("value", Name("Ms")), KW("norm", Name("initial_m"))>>))
T3SetM(line) ==
  SSetAttr(line, "system", "m",
           Call("df", "Field", <<Name("mesh")>>,
                <<KW("value", Name("initial_m")), KW("norm", Name("Ms"))>>))
T3Drive(line) ==
  SDrive(line, "td", <<KW("t", LitFloat("0.1e-9")), KW("n", LitInt(200))>>)
T3Cell6 == <<
  SAssign(120, "initial_m", Tup(<<LitInt(1), LitInt(0), LitInt(0)>>)),
  SAssign(121, "Ms", LitInt(8000000)),                              \* 8e6
  T3SetM(123) >>
T3Cell7 == <<
  SAssign(139, "td", Call("oc", "TimeDriver", <<>>, <<>>)),
  T3Drive(141) >>
T3Cell8 == <<SShow(157, Attr("system", "dt"))>>
T3Cell9 == <<
  SShow(173, Call("system", "dt.plot", <<LitStr("t"), LitStr("mz")>>, <<>>)) >>
T3Cell10 == <<PlotDt(189)>>
T3Ex1 == <<T3SetM(216), T3Drive(218), PlotDt(220)>>
\* A variant of tutorial 3's second exercise that does not reset system.m.
T3Ex2_NoReset == <<T3Drive(242), PlotDt(244)>>
T3Ex2 == <<T3SetM(240), T3Drive(242), PlotDt(244)>>
T3Ex3 == <<T3SetM(265), T3Drive(267), PlotDt(269)>>

NB3 == T3Cell1 \o T3Cell2 \o T3Cell3 \o T3Cell4 \o T3Cell5 \o T3Cell6
         \o T3Cell7 \o T3Cell8 \o T3Cell9 \o T3Cell10 \o T3Ex1 \o T3Ex2 \o T3Ex3

\* ---- Tutorial 1 (01-tutorial-geometry.ipynb, lines 1-395) ----
PlotPlaneZ(line) == SShow(line, Call("m", "plot_plane", <<LitStr("z")>>, <<>>))
HalfBox(sign, a, b, c) ==
  Tup(<<Div(IF sign < 0 THEN Neg(Name(a)) ELSE Name(a), 2),
        Div(IF sign < 0 THEN Neg(Name(b)) ELSE Name(b), 2),
        Div(IF sign < 0 THEN Neg(Name(c)) ELSE Name(c), 2)>>)
Cell5nm == Tup(<<LitInt(20), LitInt(20), LitInt(20)>>)   \* (5e-9, 5e-9, 5e-9)

T1Cell1 == <<SImport(18, "df"), SMagic(21)>>
T1Cell2 == <<
  SAssign(39, "L", LitInt(400)),       \* 100e-9
  SAssign(40, "d", LitInt(40)),        \* 10e-9
  SAssign(42, "p1", Zero3),
  SAssign(43, "p2", Tup(<<Name("L"), Name("L"), Name("L")>>)),
  SAssign(44, "cell", Tup(<<Name("d"), Name("d"), Name("d")>>)),
  SAssign(46, "mesh", Call("df", "Mesh", <<>>, <<KN("p1"), KN("p2"), KN("cell")>>)) >>
T1Inspect == <<
  SShow(64, Attr("mesh", "l")), SShow(80, Attr("mesh", "n")),
  SShow(96, Attr("mesh", "pmin")), SShow(112, Attr("mesh", "pmax")),
  SShow(128, Attr("mesh", "")) >>
T1Uniform == <<
  SAssign(152, "m",
          Call("df", "Field", <<Name("mesh")>>,
               <<KW("dim", LitInt(3)),
                 KW("value", Tup(<<LitInt(1), LitInt(0), LitInt(0)>>))>>)),
  SShow(168, Call("m", "plot_plane", <<>>, <<KW("z", LitInt(200))>>)) >>  \* z=50e-9
T1Varying == <<
  SDef(186, "m_value", "t1.m_value"),
  SAssign(193, "m",
          Call("df", "Field", <<Name("mesh")>>,
               <<KW("dim", LitInt(3)), KW("value", Name("m_value"))>>)),
  PlotPlaneZ(195) >>
T1Point == <<
  SAssign(211, "point", Zero3),
  SFieldCall(212, "m", Name("point")) >>
\* A variant of tutorial 1's norm cell that does not assign Ms.
T1Norm_NoMs == <<
  SAssign(229, "m",
          Call("df", "Field", <<Name("mesh")>>,
               <<KW("dim", LitInt(3)), KW("value", Name("m_value")),
                 KW("norm", Name("Ms"))>>)),
  SFieldCall(231, "m", Tup(<<LitInt(200), LitInt(0), LitInt(0)>>)) >>
T1Norm == <<
  SAssign(228, "Ms", LitInt(8000000)),      \* 8e6
  SAssign(229, "m",
          Call("df", "Field", <<Name("mesh")>>,
               <<KW("dim", LitInt(3)), KW("value", Name("m_value")),
                 KW("norm", Name("Ms"))>>)),
  SFieldCall(231, "m", Tup(<<LitInt(200), LitInt(0), LitInt(0)>>)) >>  \* (50e-9, 0, 0)
T1Sphere == <<
  SAssign(249, "mesh",
          Call("df", "Mesh", <<>>,
               <<KW("p1", HalfBox(-1, "L", "L", "L")),
                 KW("p2", HalfBox(1, "L", "L", "L")),
                 KW("cell", Tup(<<Name("d"), Name("d"), Name("d")>>))>>)),
  SDef(251, "Ms_value", "t1.Ms_value.sphere"),
  SAssign(258, "m",
          Call("df", "Field", <<Name("mesh")>>,
               <<KW("dim", LitInt(3)),
                 KW("value", Tup(<<LitInt(0), LitInt(-1), LitInt(0)>>)),
                 KW("norm", Name("Ms_value"))>>)),
  SShow(260, Call("m", "plot_plane", <<>>, <<KW("z", LitInt(0))>>)) >>
T1Ex1a == <<
  SAssign(278, "t", LitInt(40)),            \* 10e-9
  SAssign(279, "d", LitInt(480)),           \* 120e-9
  SAssign(280, "cell", Cell5nm),
  SAssign(281, "Ms", LitInt(10000000)),     \* 1e7
  SAssign(283, "mesh",
          Call("df", "Mesh", <<>>,
               <<KW("p1", HalfBox(-1, "d", "d", "t")),
                 KW("p2", HalfBox(1, "d", "d", "t")), KN("cell")>>)),
  SDef(285, "Ms_value", "t1.Ms_value.film"),
  SAssign(290, "m",
          Call("df", "Field", <<Name("mesh")>>,
               <<KW("value", Tup(<<LitInt(1), LitInt(0), LitInt(0)>>)),
                 KW("norm", Name("Ms_value"))>>)),
  PlotPlaneZ(292) >>
T1Ex1b == <<
  SAssign(312, "t", LitInt(40)),            \* 10e-9
  SAssign(313, "d", LitInt(480)),           \* 120e-9
  SAssign(314, "cell", Cell5nm),
  SAssign(315, "Ms", LitInt(10000000)),     \* 1e7
  SAssign(317, "mesh",
          Call("df", "Mesh", <<>>,
               <<KW("p1", HalfBox(-1, "d", "d", "t")),
                 KW("p2", HalfBox(1, "d", "d", "t")), KN("cell")>>)),
  SDef(319, "Ms_value", "t1.Ms_value.ex1b"),
  SDef(324, "m_value", "t1.m_value.ex1b"),
  SAssign(329, "m",
          Call("df", "Field", <<Name("mesh")>>,
               <<KW("value", Name("m_value")), KW("norm", Name("Ms_value"))>>)),
  PlotPlaneZ(331) >>
T1Ex2 == <<
  SAssign(353, "cell", Cell5nm),
  SAssign(354, "Ms", LitInt(8000000)),      \* 8e6
  SAssign(356, "mesh",
          Call("df", "Mesh", <<>>,
               <<KW("p1", Zero3),
                 KW("p2", Tup(<<LitInt(400), LitInt(200), LitInt(40)>>)),  \* (100e-9, 50e-9, 10e-9)
                 KN("cell")>>)),
  SDef(358, "Ms_value", "t1.Ms_value.ex2"),
  SDef(363, "m_value", "t1.m_value.ex2"),
  SAssign(368, "m",
          Call("df", "Field", <<Name("mesh")>>,
               <<KW("value", Name("m_value")), KW("norm", Name("Ms_value"))>>)),
  PlotPlaneZ(370) >>

NB1 == T1Cell1 \o T1Cell2 \o T1Inspect \o T1Uniform \o T1Varying \o T1Point
         \o T1Norm \o T1Sphere \o T1Ex1a \o T1Ex1b \o T1Ex2

\* ---- Tutorial 0 (01-tutorial-geometry.ipynb, lines 397-642) ----
T0Setup == <<
  SImport(418, "oc"), SImport(419, "df"), SMagic(422),
  SAssign(444, "system",
          Call("oc", "System", <<>>, <<KW("name", LitStr("first-joommf-simulation"))>>)) >>
T0Hamiltonian == <<
  SAssign(468, "A", LitFloat("1e-12")),
  SAssign(469, "H", Tup(<<LitInt(5000000), LitInt(0), LitInt(0)>>)),   \* 5e6
  SSetAttr(470, "system", "hamiltonian",
           Plus(Plus(Call("oc", "Exchange", <<>>, <<KN("A")>>),
                     Call("oc", "Demag", <<>>, <<>>)),
                Call("oc", "Zeeman", <<>>, <<KN("H")>>))) >>
\* A variant of tutorial 0's dynamics cell that leaves system.dynamics unset.
T0Dynamics_Unset == <<
  SAssign(488, "gamma", LitFloat("2.211e5")),
  SAssign(489, "alpha", LitFloat("0.2")) >>
T0Dynamics == <<
  SAssign(488, "gamma", LitFloat("2.211e5")),
  SAssign(489, "alpha", LitFloat("0.2")),
  SSetAttr(490, "system", "dynamics",
           Plus(Call("oc", "Precession", <<>>, <<KN("gamma")>>),
                Call("oc", "Damping", <<>>, <<KN("alpha")>>))) >>
T0InitialM == <<
  SAssign(508, "L", LitInt(400)),      \* 100e-9
  SAssign(509, "d", LitInt(20)),       \* 5e-9
  SAssign(510, "mesh",
          Call("oc", "Mesh", <<>>,
               <<KW("p1", Zero3), KW("p2", Tup(<<Name("L"), Name("L"), Name("L")>>)),
                 KW("cell", Tup(<<Name("d"), Name("d"), Name("d")>>))>>)),
  SAssign(512, "Ms", LitInt(8000000)),  \* 8e6
  SSetAttr(513, "system", "m",
           Call("df", "Field", <<Name("mesh")>>,
                <<KW("value", Tup(<<LitInt(0), LitInt(1), LitInt(0)>>)),
                  KW("norm", Name("Ms"))>>)) >>
T0Inspect == <<
  SShow(531, Attr("mesh", "")), SShow(540, Attr("system", "hamiltonian")),
  SShow(549, Attr("system", "dynamics")),
  SShow(565, Call("system", "m.plot_plane", <<LitStr("z")>>, <<>>)) >>
T0Drive == <<
  SAssign(583, "md", Call("oc", "MinDriver", <<>>, <<>>)),
  SDrive(584, "md", <<>>),
  SShow(600, Call("system", "m.plot_plane", <<LitStr("z")>>, <<>>)),
  SShow(609, Attr("system", "m.average")) >>

NB0 == T0Setup \o T0Hamiltonian \o T0Dynamics \o T0InitialM \o T0Inspect \o T0Drive

Notebooks == {"t0", "t1", "t3", "t4"}

Program(n) ==
  CASE n = "t0" -> NB0 [] n = "t1" -> NB1 [] n = "t3" -> NB3 [] n = "t4" -> NB4

-----------------------------------------------------------------------------
(* The session: executing one statement. *)

NoSystem ==
  [exists |-> FALSE, name |-> "", hamiltonian |-> <<>>, dynamics |-> <<>>,
   m |-> NoField, assigned |-> {}]

NoEnv == [x \in {} |-> 0]

NoOut == [cls |-> "none"]

\* No function is being probed (the sessions of Spec).
Idle == [fid |-> "", pos |-> <<0, 0, 0>>, done |-> FALSE]

Bind(g, n, v) == [x \in DOMAIN g \cup {n} |-> IF x = n THEN v ELSE g[x]]

\* The global names the body of a notebook function reads.
FnGlobals(fid) ==
  CASE fid = "t1.m_value" -> {"L"}
    [] fid = "t1.Ms_value.sphere" -> {"L", "Ms"}
    [] fid \in {"t1.Ms_value.film", "t1.Ms_value.ex1b", "t1.Ms_value.ex2"} -> {"Ms"}
    [] OTHER -> {}

\* The names an expression reads.
RECURSIVE Reads(_)
Reads(e) ==
  CASE e.k = "lit" -> {}
    [] e.k = "name" -> {e.n}
    [] e.k = "tuple" -> UNION {Reads(e.es[i]) : i \in DOMAIN e.es}
    [] e.k \in {"neg", "div"} -> Reads(e.e)
    [] e.k = "plus" -> Reads(e.a) \cup Reads(e.b)
    [] e.k = "call" ->
         {e.on} \cup UNION {Reads(e.pos[i]) : i \in DOMAIN e.pos}
                \cup UNION {Reads(e.kw[i].e) : i \in DOMAIN e.kw}
    [] e.k = "attr" -> {e.root}

\* The names a statement reads when it runs: those of its expression, the
\* object it acts on, and the globals of every function it has the library
\* call (a Field built from a function calls it at once).
StmtReads(s, g) ==
  LET direct == IF s.op \in {"import", "magic", "def"} THEN {}
                ELSE Reads(s.e) \cup
                     (IF s.op \in {"setattr", "iadd", "drive", "fieldcall"}
                      THEN {s.target} ELSE {})
      called == IF s.op \in {"assign", "setattr"} /\ s.e.k = "call" /\ s.e.f = "Field"
                THEN {s.e.kw[i].e.n : i \in {j \in DOMAIN s.e.kw : s.e.kw[j].e.k = "name"}}
                ELSE {}
  IN direct \cup
     UNION {IF n \in DOMAIN g /\ g[n].kind = "function"
            THEN FnGlobals(g[n].val.fid) ELSE {} : n \in called}

\* The trace keeps a field without its array (the field itself is what the
\* statement binds or assigns).
Summary(v) ==
  IF v.kind = "Field"
  THEN [kind |-> "Field",
        val |-> [cls |-> "Field", mesh |-> v.val.mesh, dim |-> v.val.dim,
                 normed |-> v.val.normed]]
  ELSE v

Entry(s, what, val) ==
  [line |-> s.line, op |-> s.op, what |-> what, val |-> Summary(val)]

\* The session after a statement that ran: the next statement is up.
Ran(S, entry, g, sy, o) ==
  [pc |-> S.pc + 1, env |-> g, system |-> sy,
   trace |-> Append(S.trace, entry), out |-> o]

\* The session after a statement that raised: the run stops (pc = 0).
Raised(S, s, what) ==
  [pc |-> 0, env |-> S.env, system |-> S.system,
   trace |-> Append(S.trace, [line |-> s.line, op |-> "raise", what |-> what,
                              val |-> [kind |-> "error", val |-> what]]),
   out |-> S.out]

DoImport(s, S) ==
  LET v == [kind |-> "module", val |-> s.target]
  IN {Ran(S, Entry(s, s.target, v), Bind(S.env, s.target, v), S.system, S.out)}

DoMagic(s, S) ==
  {Ran(S, Entry(s, "matplotlib", [kind |-> "magic", val |-> "inline"]),
       S.env, S.system, S.out)}

\* name = expression; `system = oc.System(...)` makes a new system, with
\* nothing assigned to it yet.
DoAssign(s, S) ==
  LET v == Eval(s.e, S.env)
      sy == IF v.kind = "System"
            THEN [NoSystem EXCEPT !.exists = TRUE, !.name = v.val.name]
            ELSE S.system
  IN {Ran(S, Entry(s, s.target, v), Bind(S.env, s.target, v), sy, S.out)}

\* system.attr = expression.
DoSetAttr(s, S) ==
  LET v == Eval(s.e, S.env)
      sy == [S.system EXCEPT ![s.attr] = v.val,
                             !.assigned = @ \cup {s.attr}]
  IN {Ran(S, Entry(s, s.attr, v), S.env, sy, S.out)}

\* A variant of += that puts the expression's terms in place of the ones the
\* attribute holds.
DoIAdd_Replace(s, S) ==
  LET v == Eval(s.e, S.env)
      sy == [S.system EXCEPT ![s.attr] = v.val]
  IN {Ran(S, Entry(s, s.attr, v), S.env, sy, S.out)}

\* system.attr += expression: the terms of the expression are added to the
\* ones the attribute holds.
DoIAdd(s, S) ==
  LET v == Eval(s.e, S.env)
      sy == [S.system EXCEPT ![s.attr] = @ \o v.val]
  IN {Ran(S, Entry(s, s.attr, v), S.env, sy, S.out)}

DoDef(s, S) ==
  LET v == [kind |-> "function", val |-> [name |-> s.target, fid |-> s.attr]]
  IN {Ran(S, Entry(s, s.target, v), Bind(S.env, s.target, v), S.system, S.out)}

\* driver.drive(system, ...): the entry records the system as the driver gets
\* it; the driver leaves one of its possible results in system.m.  A system
\* that lacks a Hamiltonian, a dynamics equation or a magnetisation cannot be
\* driven.
DoDrive(s, S) ==
  LET call == Eval(s.e, S.env)
      snap == [kind |-> "drive",
               val |-> [driver |-> S.env[s.target].val.cls, kw |-> call.val.kw,
                        name |-> S.system.name,
                        hamiltonian |-> S.system.hamiltonian,
                        dynamics |-> S.system.dynamics,
                        m |-> S.system.m, assigned |-> S.system.assigned]]
  IN IF {"hamiltonian", "dynamics", "m"} \subseteq S.system.assigned
     THEN {Ran(S, Entry(s, s.target, snap), S.env,
               [S.system EXCEPT !.m = [cls |-> "Driven", mesh |-> S.system.m.mesh,
                                       by |-> S.env[s.target].val.cls,
                                       outcome |-> o]],
               S.out) : o \in 1..NumOutcomes}
     ELSE {Raised(S, s, "drive of an incomplete system")}

\* An expression a cell displays or plots.
DoShow(s, S) ==
  {Ran(S, Entry(s, IF s.e.k = "attr" THEN s.e.root ELSE s.e.on, Eval(s.e, S.env)),
       S.env, S.system, S.out)}

\* field(point): the value of a cell the point lies in.
DoFieldCall(s, S) ==
  LET fld == S.env[s.target].val
      p == Eval(s.e, S.env)
  IN IF InMesh(fld.mesh, p.val)
     THEN {Ran(S, Entry(s, s.target, p), S.env, S.system, fld.array[c]) :
             c \in Point2Index(fld.mesh, p.val)}
     ELSE {Raised(S, s, "ValueError")}

\* Every session a statement can lead to.
Succ(s, S) ==
  IF ~(StmtReads(s, S.env) \subseteq DOMAIN S.env)
  THEN {Raised(S, s, "NameError")}
  ELSE CASE s.op = "import" -> DoImport(s, S)
         [] s.op = "magic" -> DoMagic(s, S)
         [] s.op = "assign" -> DoAssign(s, S)
         [] s.op = "setattr" -> DoSetAttr(s, S)
         [] s.op = "iadd" -> DoIAdd(s, S)
         [] s.op = "def" -> DoDef(s, S)
         [] s.op = "drive" -> DoDrive(s, S)
         [] s.op = "show" -> DoShow(s, S)
         [] s.op = "fieldcall" -> DoFieldCall(s, S)

-----------------------------------------------------------------------------
(* The state machine. *)

Session == [pc |-> pc, env |-> env, system |-> system, trace |-> trace, out |-> out]

Running == pc \in 1..Len(Program(nb))
CurStmt == Program(nb)[pc]

Init ==
  /\ nb \in Notebooks
  /\ pc = 1
  /\ env = NoEnv
  /\ system = NoSystem
  /\ trace = <<>>
  /\ out = NoOut
  /\ probe = Idle

\* The session goes to one of the sessions in `next`.
Step(next) ==
  \E S2 \in next :
     /\ pc' = S2.pc
     /\ env' = S2.env
     /\ system' = S2.system
     /\ trace' = S2.trace
     /\ out' = S2.out

\* The next statement of the notebook is up and is an `op` statement.
At(op) == Running /\ CurStmt.op = op

Import ==
  /\ At("import")
  /\ Step(Succ(CurStmt, Session))
  /\ UNCHANGED <<nb, probe>>

Magic ==
  /\ At("magic")
  /\ Step(Succ(CurStmt, Session))
  /\ UNCHANGED <<nb, probe>>

Assign ==
  /\ At("assign")
  /\ Step(Succ(CurStmt, Session))
  /\ UNCHANGED <<nb, probe>>

SetAttr ==
  /\ At("setattr")
  /\ Step(Succ(CurStmt, Session))
  /\ UNCHANGED <<nb, probe>>

IAdd ==
  /\ At("iadd")
  /\ Step(Succ(CurStmt, Session))
  /\ UNCHANGED <<nb, probe>>

Def ==
  /\ At("def")
  /\ Step(Succ(CurStmt, Session))
  /\ UNCHANGED <<nb, probe>>

Drive ==
  /\ At("drive")
  /\ Step(Succ(CurStmt, Session))
  /\ UNCHANGED <<nb, probe>>

Show ==
  /\ At("show")
  /\ Step(Succ(CurStmt, Session))
  /\ UNCHANGED <<nb, probe>>

FieldCall ==
  /\ At("fieldcall")
  /\ Step(Succ(CurStmt, Session))
  /\ UNCHANGED <<nb, probe>>

Next ==
  \/ Import
  \/ Magic
  \/ Assign
  \/ SetAttr
  \/ IAdd
  \/ Def
  \/ Drive
  \/ Show
  \/ FieldCall

Spec == Init /\ [][Next]_vars

-----------------------------------------------------------------------------
(* Calling the notebooks' functions and fields at any position.  A session  *)
(* has reached the statement that hands the function to the library (or     *)
(* that calls the field); the function is then called at one position of    *)
(* the half-cell grid of the session's mesh.                                *)

RECURSIVE RunTo(_, _)
\* The session of notebook n after its first k statements.
RunTo(n, k) ==
  IF k = 0
  THEN [pc |-> 1, env |-> NoEnv, system |-> NoSystem, trace |-> <<>>, out |-> NoOut]
  ELSE CHOOSE S2 \in Succ(Program(n)[k], RunTo(n, k - 1)) : TRUE

StmtAt(n, line) == CHOOSE i \in DOMAIN Program(n) : Program(n)[i].line = line

\* The statements the calls are made at: the Field built from tutorial 4's
\* m_value, from tutorial 1's m_value and from the sphere's Ms_value, and
\* the call m(point) of tutorial 1.
ProbeSites ==
  {[nb |-> "t4", line |-> 76, fid |-> "t4.m_value"],
   [nb |-> "t1", line |-> 193, fid |-> "t1.m_value"],
   [nb |-> "t1", line |-> 258, fid |-> "t1.Ms_value.sphere"],
   [nb |-> "t1", line |-> 212, fid |-> "m"]}

InitFn ==
  \E site \in ProbeSites :
    LET S == RunTo(site.nb, StmtAt(site.nb, site.line) - 1)
    IN /\ nb = site.nb
       /\ pc = S.pc
       /\ env = S.env
       /\ system = S.system
       /\ trace = S.trace
       /\ out = S.out
       /\ probe \in {[fid |-> site.fid, pos |-> p, done |-> FALSE] :
                       p \in HalfGrid(S.env["mesh"].val, ProbeMargin)}

\* The function is called at the position; its result is the output.
CallFunction ==
  /\ probe.fid \in FnIds
  /\ ~probe.done
  /\ out' = [cls |-> "result", res |-> ApplyFn(probe.fid, probe.pos, env)]
  /\ probe' = [probe EXCEPT !.done = TRUE]
  /\ UNCHANGED <<nb, pc, env, system, trace>>

\* The field m is called at the position: m(point).
CallField ==
  /\ probe.fid = "m"
  /\ ~probe.done
  /\ LET fld == env["m"].val
     IN IF InMesh(fld.mesh, probe.pos)
        THEN \E c \in Point2Index(fld.mesh, probe.pos) : out' = fld.array[c]
        ELSE out' = [cls |-> "ValueError"]
  /\ probe' = [probe EXCEPT !.done = TRUE]
  /\ UNCHANGED <<nb, pc, env, system, trace>>

NextFn ==
  \/ CallFunction
  \/ CallField

SpecFn == InitFn /\ [][NextFn]_vars

-----------------------------------------------------------------------------
(* Properties of the sessions. *)

Finished == pc = Len(Program(nb)) + 1
DriveEntries == {i \in DOMAIN trace : trace[i].op = "drive"}
TermsOf(dyn, cls) == {i \in DOMAIN dyn : dyn[i].cls = cls}

\* What an entry does to the system: it makes a new one, drives it with a
\* driver, or adds a term to its dynamics.
Milestone(e) ==
  IF e.op = "drive" THEN e.val.val.driver
  ELSE IF e.op = "iadd" THEN e.val.val[1].cls
  ELSE IF e.op = "assign" /\ e.what = "system" THEN "System"
  ELSE ""
IsMilestone(e) == Milestone(e) # ""
Milestones ==
  LET ms == SelectSeq(trace, IsMilestone)
  IN [i \in DOMAIN ms |-> Milestone(ms[i])]
IsPrefix(a, b) == Len(a) <= Len(b) /\ a = SubSeq(b, 1, Len(a))

\* C1: in tutorial 4, for the example system and again for the exercise
\* system, the order is: new system, MinDriver run, STT term added,
\* TimeDriver run; the dynamics handed to md.drive holds no STT term, and the
\* dynamics handed to td.drive(system, t=0.5e-9, n=100) holds exactly one.
C1_STTBetweenDrives ==
  nb = "t4" =>
    /\ IsPrefix(Milestones,
                <<"System", "MinDriver", "STT", "TimeDriver",
                  "System", "MinDriver", "STT", "TimeDriver">>)
    /\ \A i \in DriveEntries :
         LET d == trace[i].val.val
         IN /\ d.driver = "MinDriver" =>
                 TermsOf(d.dynamics, "STT") = {} /\ DOMAIN d.kw = {}
            /\ d.driver = "TimeDriver" =>
                 /\ Cardinality(TermsOf(d.dynamics, "STT")) = 1
                 /\ d.kw["t"].val = "0.5e-9"
                 /\ d.kw["n"].val = 100

\* C1 witness: tutorial 4 has run to its end, with all four drives done.
C1_Witness ==
  nb = "t4" /\ Finished /\ Cardinality(DriveEntries) = 4

STTTerm ==
  [cls |-> "STT",
   kw |-> [u |-> [kind |-> "tuple", val |-> <<400, 0, 0>>],
           beta |-> [kind |-> "float", val |-> "0.5"]]]

\* C2: in tutorial 4, the step system.dynamics += oc.STT(u=(ux, 0, 0),
\* beta=beta) keeps the Precession(gamma) and Damping(alpha) terms the
\* dynamics held, unchanged and in place, adds the STT term to them, and
\* leaves system.hamiltonian and system.m as they were.
C2_IAddExtends ==
  [][(nb = "t4" /\ At("iadd")) =>
       /\ [i \in DOMAIN system.dynamics |-> system.dynamics[i].cls]
            = <<"Precession", "Damping">>
       /\ system.dynamics[1].kw["gamma"] = env["gamma"]
       /\ system.dynamics[2].kw["alpha"] = env["alpha"]
       /\ system'.dynamics = system.dynamics \o <<STTTerm>>
       /\ system'.hamiltonian = system.hamiltonian
       /\ system'.m = system.m]_vars

\* C2 witness: the += of tutorial 4 has just run and the dynamics holds three
\* terms.
C2_Witness ==
  /\ nb = "t4"
  /\ trace # <<>>
  /\ trace[Len(trace)].op = "iadd"
  /\ Len(system.dynamics) = 3

UniformField(mesh, value, norm) ==
  [c \in Cells(mesh) |-> [value |-> value, norm |-> norm]]

\* C4: in tutorial 3, every td.drive(system, t=0.1e-9, n=200) comes after an
\* assignment system.m = df.Field(mesh, value=initial_m, norm=Ms) with no
\* drive and no other change of the system in between, so the magnetisation
\* handed to each drive is the uniform (1, 0, 0) field of norm Ms = 8e6 and
\* never the result of an earlier drive.
C4_DriveFromInitialM ==
  nb = "t3" =>
    \A i \in DriveEntries :
      LET d == trace[i].val.val
      IN /\ d.driver = "TimeDriver"
         /\ d.kw["t"].val = "0.1e-9" /\ d.kw["n"].val = 200
         /\ \E j \in 1..(i - 1) :
              /\ trace[j].op = "setattr" /\ trace[j].what = "m"
              /\ trace[j].val.kind = "Field"
              /\ trace[j].val.val.mesh = d.m.mesh
              /\ \A k \in (j + 1)..(i - 1) :
                   trace[k].op \notin {"drive", "setattr", "iadd"}
         /\ d.m.cls = "Field"
         /\ d.m.mesh = env["mesh"].val
         /\ d.m.array = UniformField(env["mesh"].val, <<1, 0, 0>>, 8000000)
         /\ env["initial_m"].val = <<1, 0, 0>> /\ env["Ms"].val = 8000000

\* C4 witness: tutorial 3 has run to its end: four time evolutions are done.
C4_Witness ==
  nb = "t3" /\ Finished /\ Cardinality(DriveEntries) = 4

\* C5: in every notebook, a system that a driver is invoked on has had its
\* hamiltonian, its dynamics and its m assigned; no drive is refused for
\* lack of one of them, and no drive statement is reached before the three
\* are assigned.
C5_ConfiguredBeforeDrive ==
  /\ \A i \in DOMAIN trace : trace[i].op # "raise"
  /\ \A i \in DriveEntries :
       LET d == trace[i].val.val
       IN /\ {"hamiltonian", "dynamics", "m"} \subseteq d.assigned
          /\ d.hamiltonian # <<>>
          /\ d.dynamics # <<>>
          /\ d.m.cls # "none"
  /\ At("drive") =>
       /\ system.exists
       /\ {"hamiltonian", "dynamics", "m"} \subseteq system.assigned

\* C5 witness: tutorial 0 has driven its system.
C5_Witness ==
  nb = "t0" /\ Cardinality(DriveEntries) = 1

\* The session is about to run a statement mesh = oc.Mesh(...) or
\* mesh = df.Mesh(...).
AtMesh ==
  Running /\ CurStmt.op = "assign" /\ CurStmt.e.k = "call" /\ CurStmt.e.f = "Mesh"

\* The mesh that statement builds.
MeshUp == Eval(CurStmt.e, env).val

\* C9 as claimed: every mesh a notebook constructs has on each axis an edge
\* p2 - p1 that is exactly a positive whole multiple of the cell size, the
\* number of cells; the mesh of tutorial 3 has 1 x 1 x 1 cells and the
\* meshes of tutorial 4 have 200 x 8 x 1.  The edge and the cell size are
\* the doubles the call receives.
C9_MeshCells ==
  AtMesh =>
    LET D == MeshDoubles(CurStmt, env)
    IN /\ \A a \in 1..3 :
            /\ ~D.l[a].neg /\ D.l[a].m # <<>>
            /\ \E k \in 1..MaxCells :
                 /\ OffMultiple(D.l[a], D.cell[a], k).off = <<>>
                 /\ MeshUp.n[a] = k
       /\ nb = "t3" => MeshUp.n = <<1, 1, 1>>
       /\ nb = "t4" => MeshUp.n = <<200, 8, 1>>

\* C9 amended: every mesh a notebook constructs has on each axis an edge
\* p2 - p1 that is a positive whole multiple of the cell size in the decimal
\* numbers the notebook writes; the doubles the call receives are that
\* multiple only to within rounding (the edge is less than 2^-40 of a cell
\* away from it), and exactly so for the mesh of tutorial 3.  The number of
\* cells is that multiple: 1 x 1 x 1 in tutorial 3, 200 x 8 x 1 in
\* tutorial 4.
C9_MeshCellsToRounding ==
  AtMesh =>
    LET D == MeshDoubles(CurStmt, env)
        mesh == MeshUp
    IN /\ \A a \in 1..3 :
            LET o == OffMultiple(D.l[a], D.cell[a], mesh.n[a])
            IN /\ mesh.p2[a] - mesh.p1[a] > 0
               /\ (mesh.p2[a] - mesh.p1[a]) % mesh.cell[a] = 0
               /\ mesh.n[a] * mesh.cell[a] = mesh.p2[a] - mesh.p1[a]
               /\ mesh.n[a] \in 1..MaxCells
               /\ ~D.l[a].neg /\ D.l[a].m # <<>>
               /\ Less(Shl(o.off, 40), o.cell)
               /\ nb = "t3" => o.off = <<>>
       /\ nb = "t3" => mesh.n = <<1, 1, 1>>
       /\ nb = "t4" => mesh.n = <<200, 8, 1>>

\* C9 witness: tutorial 4 is about to build the mesh of its exercise, whose
\* edge along x, the double of 500e-9, is not 200 times the double of 2.5e-9.
C9_Witness ==
  /\ nb = "t4" /\ AtMesh /\ CurStmt.line = 176
  /\ MeshUp.n = <<200, 8, 1>>
  /\ LET D == MeshDoubles(CurStmt, env)
     IN OffMultiple(D.l[1], D.cell[1], 200).off # <<>>

\* C10: the field tutorial 1's Exercise 1a builds as shipped is a full thin
\* film: its mesh spans (-d/2, -d/2, -t/2) to (d/2, d/2, t/2) with d = 120 nm
\* and t = 10 nm (24 x 24 x 2 cells), every cell of it has norm Ms = 1e7 and
\* direction (1, 0, 0), and Ms_value returns Ms wherever it is called.
C10_FilmUncut ==
  (nb = "t1" /\ trace # <<>> /\ trace[Len(trace)].line \in {290, 292}) =>
    LET fld == env["m"].val
    IN /\ fld.mesh.p1 = <<-240, -240, -20>>
       /\ fld.mesh.p2 = <<240, 240, 20>>
       /\ fld.mesh.n = <<24, 24, 2>>
       /\ DOMAIN fld.array = Cells(fld.mesh)
       /\ Cardinality(DOMAIN fld.array) = 24 * 24 * 2
       /\ \A c \in DOMAIN fld.array :
            fld.array[c] = [value |-> <<1, 0, 0>>, norm |-> 10000000]
       /\ env["Ms_value"].val.fid = "t1.Ms_value.film"
       /\ \A p \in HalfGrid(fld.mesh, ProbeMargin) :
            ApplyFn(env["Ms_value"].val.fid, p, env) = 10000000

\* C10 witness: the Field statement of Exercise 1a has just run.
C10_Witness ==
  nb = "t1" /\ trace # <<>> /\ trace[Len(trace)].line = 290 /\ env["Ms"].val = 10000000

\* The entries of tutorial 4's example (after its imports) and of its
\* Exercise 1, once the notebook has run.
ExampleRun == SubSeq(trace, 4, Len(T4Example))
ExerciseRun == SubSeq(trace, Len(T4Example) + 1, Len(NB4))

\* What an entry did, apart from the line it is on: a definition counts as
\* the function it defines (its values over the mesh's half-cell grid), a
\* drive as the driver, its arguments and the system it was handed; the
\* magnetisation counts while it is the field the notebook built.
Canon(e) ==
  CASE e.op = "def" ->
         [op |-> e.op, what |-> e.what, kind |-> e.val.kind,
          val |-> [p \in HalfGrid(env["mesh"].val, ProbeMargin) |->
                     ApplyFn(e.val.val.fid, p, env)]]
    [] e.op = "drive" ->
         [op |-> e.op, what |-> e.what, kind |-> e.val.kind,
          val |-> [driver |-> e.val.val.driver, kw |-> e.val.val.kw,
                   name |-> e.val.val.name,
                   hamiltonian |-> e.val.val.hamiltonian,
                   dynamics |-> e.val.val.dynamics,
                   m |-> IF e.val.val.m.cls = "Field" THEN e.val.val.m ELSE NoField]]
    [] OTHER -> [op |-> e.op, what |-> e.what, kind |-> e.val.kind, val |-> e.val.val]

SameEntry(a, b) ==
  /\ a.op = b.op
  /\ a.what = b.what
  /\ a.kind = b.kind
  /\ a.val = b.val

\* The same with the two things left out that the exercise changes: the name
\* of the system and the figsize of a plot.
Blank(c) ==
  CASE c.op = "assign" /\ c.kind = "System" -> [c EXCEPT !.val = [name |-> ""]]
    [] c.op = "drive" -> [c EXCEPT !.val.name = ""]
    [] c.op = "show" /\ c.kind = "call" ->
         [c EXCEPT !.val.kw = [n \in DOMAIN c.val.kw \ {"figsize"} |-> c.val.kw[n]]]
    [] OTHER -> c

-----------------------------------------------------------------------------
(* Properties of the functions and of the fields built from them (SpecFn). *)

\* The field the statement the session has reached builds.
FieldUp == Eval(CurStmt.e, env).val

\* The rows of cells along x (their y and z indices) that position p lies in.
RowsAt(mesh, p) ==
  {r \in (0..(mesh.n[2] - 1)) \X (0..(mesh.n[3] - 1)) :
     \A a \in 2..3 :
        /\ mesh.pmin[a] + r[a - 1] * mesh.cell[a] <= p[a]
        /\ p[a] <= mesh.pmin[a] + (r[a - 1] + 1) * mesh.cell[a]}

\* C3: tutorial 4's m_value returns (0, 0, -1) exactly at the positions with
\* 20 nm < x < 40 nm and (0, 0, 1) at every other one, whatever y and z are;
\* in the field built from it on the 500 nm x 20 nm x 2.5 nm mesh of 2.5 nm
\* cells, the reversed cells of every row along x form one contiguous block
\* and the z component changes sign exactly twice along the row.
C3_DomainWallPair ==
  (probe.fid = "t4.m_value" /\ probe.done) =>
    LET x == probe.pos[1]
        mesh == env["mesh"].val
    IN /\ out.res = IF 80 < x /\ x < 160 THEN <<0, 0, -1>> ELSE <<0, 0, 1>>
       /\ mesh.l = <<2000, 80, 10>>
       /\ mesh.cell = <<10, 10, 10>>
       /\ \A r \in RowsAt(mesh, probe.pos) :
            LET row == [i \in 0..(mesh.n[1] - 1) |-> FieldUp.array[<<i, r[1], r[2]>>]]
                rev == {i \in DOMAIN row : row[i].value = <<0, 0, -1>>}
            IN /\ \A i \in DOMAIN row :
                    /\ row[i].value \in {<<0, 0, -1>>, <<0, 0, 1>>}
                    /\ row[i].norm = 580000
               /\ rev # {}
               /\ \A i \in rev, j \in rev :
                    \A k \in i..j : k \in rev
               /\ Cardinality({i \in 0..(mesh.n[1] - 2) :
                                 row[i].value[3] # row[i + 1].value[3]}) = 2

\* C3 witness: m_value has been called at the centre of a cell of the mesh
\* between 20 nm and 40 nm and has returned (0, 0, -1).
C3_Witness ==
  /\ probe.fid = "t4.m_value" /\ probe.done
  /\ probe.pos = <<85, 5, 5>>
  /\ out.res = <<0, 0, -1>>

\* The index of the cell that p is the centre of, if it is one.
CentreIndex(mesh, p) ==
  [a \in 1..3 |-> (2 * (p[a] - mesh.pmin[a]) - mesh.cell[a]) \div (2 * mesh.cell[a])]
IsCentre(mesh, p) ==
  /\ InMesh(mesh, p)
  /\ \A a \in 1..3 : (2 * (p[a] - mesh.pmin[a]) - mesh.cell[a]) % (2 * mesh.cell[a]) = 0

\* The images of p under every permutation and sign flip of the coordinates.
Symmetric(p) ==
  {<<s[1] * p[q[1]], s[2] * p[q[2]], s[3] * p[q[3]]>> :
     s \in {-1, 1} \X {-1, 1} \X {-1, 1},
     q \in {<<1, 2, 3>>, <<1, 3, 2>>, <<2, 1, 3>>, <<2, 3, 1>>, <<3, 1, 2>>, <<3, 2, 1>>}}

\* C7: tutorial 1's sphere Ms_value returns Ms = 8e6 at every position
\* closer to the origin than L/2 = 50 nm and 0 at every other one; in the
\* field built from it on the mesh from (-L/2, -L/2, -L/2) to (L/2, L/2,
\* L/2) the norm of a cell is Ms when its centre lies inside the sphere and
\* 0 when not, and it is the same at every cell whose centre is the image
\* of the cell's centre under a permutation or sign flip of the coordinates.
C7_SphereNorm ==
  (probe.fid = "t1.Ms_value.sphere" /\ probe.done) =>
    LET p == probe.pos
        mesh == env["mesh"].val
        inside == p[1] * p[1] + p[2] * p[2] + p[3] * p[3] < 200 * 200
    IN /\ out.res = IF inside THEN 8000000 ELSE 0
       /\ mesh.p1 = <<-200, -200, -200>> /\ mesh.p2 = <<200, 200, 200>>
       /\ env["L"].val = 400 /\ env["Ms"].val = 8000000
       /\ IsCentre(mesh, p) =>
            LET here == FieldUp.array[CentreIndex(mesh, p)]
            IN /\ here.norm \in {0, 8000000}
               /\ here.norm = 8000000 <=> inside
               /\ here.value = <<0, -1, 0>>
               /\ \A q \in Symmetric(p) :
                    /\ IsCentre(mesh, q)
                    /\ FieldUp.array[CentreIndex(mesh, q)].norm = here.norm

\* C7 witness: Ms_value has been called at a cell centre inside the sphere
\* and has returned Ms.
C7_Witness ==
  /\ probe.fid = "t1.Ms_value.sphere" /\ probe.done
  /\ probe.pos = <<20, -60, 100>>
  /\ out.res = 8000000

\* C8: tutorial 1's m_value returns (1, 0, 0) at the positions with
\* x > L/5 = 20 nm and (-1, 1, 0) at every other one; the field built from
\* it, called at a point of the mesh domain, returns the value of a cell
\* that contains the point, which is m_value at the centre of that cell;
\* m((0, 0, 0)) is (-1, 1, 0).
C8_FieldAsFunction ==
  /\ (probe.fid = "t1.m_value" /\ probe.done) =>
       /\ env["L"].val = 400
       /\ out.res = IF probe.pos[1] > 80 THEN <<1, 0, 0>> ELSE <<-1, 1, 0>>
  /\ (probe.fid = "m" /\ probe.done /\ InMesh(env["mesh"].val, probe.pos)) =>
       LET mesh == env["mesh"].val
       IN /\ env["m"].val.mesh = mesh
          /\ \E c \in Cells(mesh) :
               /\ \A a \in 1..3 :
                    /\ mesh.pmin[a] + c[a] * mesh.cell[a] <= probe.pos[a]
                    /\ probe.pos[a] <= mesh.pmin[a] + (c[a] + 1) * mesh.cell[a]
               /\ out = [value |->
                           IF mesh.pmin[1] + c[1] * mesh.cell[1] + mesh.cell[1] \div 2 > 80
                           THEN <<1, 0, 0>> ELSE <<-1, 1, 0>>]
          /\ probe.pos = <<0, 0, 0>> => out = [value |-> <<-1, 1, 0>>]

\* C8 witness: the field has been called at (0, 0, 0) and has returned
\* (-1, 1, 0).
C8_Witness ==
  /\ probe.fid = "m" /\ probe.done
  /\ probe.pos = <<0, 0, 0>>
  /\ out = [value |-> <<-1, 1, 0>>]

-----------------------------------------------------------------------------
(* Properties of the arguments the notebooks hand to the libraries. *)

\* The calls of Mesh, Field and of the energy and dynamics terms that an
\* expression makes, in the order written.
RECURSIVE CtorCalls(_)
CtorCalls(e) ==
  CASE e.k = "plus" -> CtorCalls(e.a) \o CtorCalls(e.b)
    [] e.k = "call" -> IF e.f \in {"Mesh", "Field"} \cup TermClasses THEN <<e>> ELSE <<>>
    [] OTHER -> <<>>

\* The values of the arguments of call c, positional ones first; each with
\* the name of its parameter ("" for a positional one).
ArgValues(c, g) ==
  [i \in DOMAIN c.pos |-> [f |-> c.f, n |-> "", v |-> Eval(c.pos[i], g)]]
    \o [i \in DOMAIN c.kw |-> [f |-> c.f, n |-> c.kw[i].n, v |-> Eval(c.kw[i].e, g)]]

\* The arguments of every such call of the statement the session is about
\* to run.
ArgsUp ==
  IF Running /\ CurStmt.op \in {"assign", "setattr", "iadd"}
  THEN LET cs == CtorCalls(CurStmt.e)
       IN [i \in DOMAIN cs |-> ArgValues(cs[i], env)]
  ELSE <<>>

\* A number or a tuple of numbers.
Numeric(v) == v.kind \in {"int", "float", "tuple"}

\* C11 as claimed: every argument of a call of Mesh, of Field or of an
\* energy or dynamics term is a number or a tuple of numbers, never a
\* function or another object the notebook has made.
C11_ArgumentsNumeric ==
  \A i \in DOMAIN ArgsUp :
    \A j \in DOMAIN ArgsUp[i] : Numeric(ArgsUp[i][j].v)

\* C11 amended: every argument of a call of Mesh or of an energy or dynamics
\* term is a number or a tuple of numbers, except the crystalclass of
\* tutorial 4's DMI term, the string "Cnv".  A call of Field gets as its
\* first argument the mesh the notebook has built and bound to `mesh`; its
\* value is a tuple of numbers or a function the notebook has defined, its
\* norm a number or a function the notebook has defined, its dim a number.
\* Functions are passed in tutorials 1 and 4 only.
C11_ArgumentsNumericButField ==
  \A i \in DOMAIN ArgsUp :
    \A j \in DOMAIN ArgsUp[i] :
      LET a == ArgsUp[i][j]
          defined == /\ a.v.kind = "function"
                     /\ a.v.val.fid \in FnIds
                     /\ nb \in {"t1", "t4"}
                     /\ \E k \in DOMAIN trace :
                          /\ trace[k].op = "def"
                          /\ trace[k].val = a.v
      IN IF a.f = "DMI" /\ a.n = "crystalclass"
         THEN a.v = [kind |-> "str", val |-> "Cnv"] /\ nb = "t4"
         ELSE IF a.f # "Field" THEN Numeric(a.v)
         ELSE CASE a.n = "" -> j = 1 /\ a.v.kind = "Mesh" /\ a.v = env["mesh"]
                [] a.n = "value" -> a.v.kind = "tuple" \/ defined
                [] a.n = "norm" -> a.v.kind = "int" \/ defined
                [] a.n = "dim" -> a.v.kind = "int"
                [] OTHER -> FALSE

\* C11 witness: tutorial 4 is about to build system.m from the function
\* m_value (line 76).
C11_Witness ==
  /\ nb = "t4" /\ Running /\ CurStmt.line = 76
  /\ Len(ArgsUp) = 1
  /\ \E j \in DOMAIN ArgsUp[1] :
       /\ ArgsUp[1][j].n = "value"
       /\ ArgsUp[1][j].v.kind = "function"
       /\ ArgsUp[1][j].v.val.fid = "t4.m_value"

-----------------------------------------------------------------------------
(* Properties of the names the cells use. *)

\* The names the statements run so far have bound, by import, = or def.
Bound ==
  {trace[i].what : i \in {j \in DOMAIN trace :
                            trace[j].op \in {"import", "assign", "def"}}}

\* C12: when a notebook is run from top to bottom in one session, every
\* name the statement about to run reads, the globals read by the functions
\* it has the library call included, has been bound by an earlier statement;
\* no statement has raised a NameError, and the session holds exactly the
\* names the earlier statements have bound.
C12_NamesDefined ==
  /\ \A i \in DOMAIN trace : trace[i].op # "raise"
  /\ DOMAIN env = Bound
  /\ Running =>
       /\ StmtReads(CurStmt, env) \subseteq Bound
       /\ (CurStmt.op \in {"assign", "setattr"} /\ CurStmt.e.k = "call"
             /\ CurStmt.e.f = "Field") =>
            \A i \in DOMAIN CurStmt.e.kw :
              LET a == CurStmt.e.kw[i].e
              IN (a.k = "name" /\ env[a.n].kind = "function") =>
                   FnGlobals(env[a.n].val.fid) \subseteq Bound

\* C12 witness: tutorial 1 is about to build the sphere's field (line 258)
\* from Ms_value, whose body reads L and Ms, and both are bound.
C12_Witness ==
  /\ nb = "t1" /\ Running /\ CurStmt.line = 258
  /\ env["Ms_value"].val.fid = "t1.Ms_value.sphere"
  /\ {"L", "Ms"} \subseteq StmtReads(CurStmt, env)
  /\ {"L", "Ms"} \subseteq Bound

=============================================================================
